---------------------------- MODULE Spec2Model ----------------------------
(***************************************************************************)
(* A model of the Once guard of package sync.                              *)
(*                                                                         *)
(* Two variants live in the repository: the configurable Once              *)
(* (src/unnamed/part_000: lazyDone, suppressPanic, verify, Reset) and the  *)
(* simplified once (src/once.go: suppressPanic only, no Reset, Close       *)
(* without the mutex).  One guard is shared by the goroutines of Procs;    *)
(* each goroutine repeatedly calls one of Do, Done(false), Done(true),     *)
(* Reset, Close.  Every atomic load or store, every mutex operation and    *)
(* every action invocation of the source is one step of the calling        *)
(* goroutine.  A Lock() is folded into the step that follows it and an     *)
(* Unlock() into the step before it: no goroutine can observe the mutex    *)
(* between the two, so no interleaving is lost.                            *)
(***************************************************************************)
EXTENDS Naturals, Sequences, FiniteSets

\* ------------------------------------------------------------------ bounds

\* The goroutines sharing the guard.
Procs == {1, 2, 3}
\* Length of the action list fs (f plus the variadic fs...).
NumActions == 2
\* Total number of calls the goroutines make on the guard.
MaxCalls == 3
\* The history counts invocations and true results as 0, 1, ... up to Many.
Many == 2

Actions == 1..NumActions
None == 0

\* VerifyType
VerifyNone == "VerifyNone"
VerifyAll == "VerifyAll"
VerifyFirstRunAll == "VerifyFirstRunAll"
VerifyFirstExit == "VerifyFirstExit"
VerifyTypes == {VerifyNone, VerifyAll, VerifyFirstRunAll, VerifyFirstExit}

\* What one invocation f() can do: return true, return false, or panic.
\* The simplified variant's FuncType returns nothing: it returns or panics.
Outcomes(variant) == IF variant = "simple" THEN {"T", "P"} ELSE {"T", "F", "P"}

VARIABLES
    cfg,        \* the guard's configuration, fixed at construction
    done,       \* d.done    (uint32, 0 or 1)
    unblock,    \* d.unblock (uint32, 0 or 1)
    mu,         \* d.mu: the goroutine holding it, or None
    waiters,    \* d.unblockCond's notify list: goroutines inside Wait()
    pc,         \* where each goroutine is
    op,         \* the call each goroutine is in
    i,          \* Do: index of the next element of d.fs
    res,        \* Do: the named result (res, ret in the simplified variant)
    tempRes,    \* Do, VerifyAll: tempRes
    panicking,  \* Do: a panic is unwinding through the deferred calls
    ret,        \* what the call handed to its caller
    ran,        \* Do: the actions this call invoked, in order
    outs,       \* Do: what each of them did ("T", "F", "P"), in a traced run
    calls,      \* calls made so far
    \* history of the guard
    reset,      \* Reset has cleared done at least once since construction
    begun,      \* an execution of the action list has begun since the last
                \* Reset (since construction before the first)
    lastRes,    \* how the latest finished execution ended: "T", "F", "P"
    closed,     \* Close has stored unblock at least once since construction
    panicked,   \* some action has panicked since construction
    counting,   \* whether this run keeps the two counts below
    tracing,    \* whether this run keeps outs (and then no call history)
    invoked,    \* invocations of each action since construction (up to Many)
    doTrue,     \* Do calls that returned true since construction (up to Many)
    \* history of each goroutine's call in progress
    cDone,      \* Do: done = 1 when the call was made
    cBusy,      \* Do, Reset, Done(true): an execution was in progress then
    cReset,     \* Do, Reset: another call's Reset cleared done since
    cExec,      \* Do, Reset: another call began an execution since
    cOpen,      \* Done(true): unblock = 1 when the call was made, and no
                \* Reset has stored unblock since
    \* a sequence of calls made on the two variants in turn
    pair        \* phase: 0 in the runs that make none, 1 while the calls are
                \* made on the simplified variant, 2 while they are made
                \* again on the configurable one; acts: what each action
                \* does whenever it is invoked; log: each call of phase 1
                \* with its result and done after it

vars == <<cfg, done, unblock, mu, waiters, pc, op, i, res, tempRes,
          panicking, ret, ran, outs, calls, reset, begun, lastRes, closed,
          panicked, counting, tracing, invoked, doTrue, cDone, cBusy, cReset,
          cExec, cOpen, pair>>

guardVars == <<done, unblock, mu, waiters>>
histVars == <<reset, begun, lastRes, closed, panicked, counting, tracing,
              invoked, doTrue>>
callVars == <<cDone, cBusy, cReset, cExec, cOpen>>
doVars == <<i, res, tempRes, panicking, ran, outs>>

\* ------------------------------------------------------------ construction

\* Fault: NewOnce validates nothing.
NewOnceAny(lazyDone, suppressPanic, verify) == "ok"

\* NewOnce's validation: "error" when lazyDone == false && verify != VerifyNone.

NewOnce(lazyDone, suppressPanic, verify) ==
    IF lazyDone = FALSE /\ verify # VerifyNone
    THEN "error"
    ELSE "ok"

\* The guards NewOnce of the configurable variant returns.
FullConfigs ==
    { [variant |-> "full", lazyDone |-> l, suppressPanic |-> s, verify |-> v] :
        <<l, s, v>> \in { c \in BOOLEAN \X BOOLEAN \X VerifyTypes :
                            NewOnce(c[1], c[2], c[3]) = "ok" } }

\* The guards NewOnce of the simplified variant returns. It has no lazyDone
\* and no verify field: done is stored by a deferred call after the actions,
\* and results are not looked at.
SimpleConfigs ==
    { [variant |-> "simple", lazyDone |-> TRUE, suppressPanic |-> s,
       verify |-> VerifyNone] : s \in BOOLEAN }

Configs == FullConfigs \cup SimpleConfigs

Full == cfg.variant = "full"
Simple == cfg.variant = "simple"
Eager == Full /\ ~cfg.lazyDone
Lazy == Full /\ cfg.lazyDone

\* The methods of each variant (the simplified Once interface has no Reset).
Ops == IF Simple THEN {"Do", "Done", "DoneBlock", "Close"}
       ELSE {"Do", "Done", "DoneBlock", "Reset", "Close"}

\* Do holds d.mu: after the locked re-check of done, before the deferred Unlock.
ExecPcs == {"do_run", "do_commit", "do_exit"}
Executing(p) == pc[p] \in ExecPcs

\* The guard as NewOnce returns it, and goroutines that have called nothing.
Fresh ==
    /\ done = 0
    /\ unblock = 0
    /\ mu = None
    /\ waiters = {}
    /\ pc = [p \in Procs |-> "idle"]
    /\ op = [p \in Procs |-> "none"]
    /\ i = [p \in Procs |-> 0]
    /\ res = [p \in Procs |-> FALSE]
    /\ tempRes = [p \in Procs |-> FALSE]
    /\ panicking = [p \in Procs |-> FALSE]
    /\ ret = [p \in Procs |-> "none"]
    /\ ran = [p \in Procs |-> <<>>]
    /\ outs = [p \in Procs |-> <<>>]
    /\ calls = 0
    /\ reset = FALSE
    /\ begun = FALSE
    /\ lastRes = "none"
    /\ closed = FALSE
    /\ panicked = FALSE
    /\ invoked = [a \in Actions |-> 0]
    /\ doTrue = 0
    /\ cDone = [p \in Procs |-> FALSE]
    /\ cBusy = [p \in Procs |-> FALSE]
    /\ cReset = [p \in Procs |-> FALSE]
    /\ cExec = [p \in Procs |-> FALSE]
    /\ cOpen = [p \in Procs |-> FALSE]

\* The runs that compare no two variants.
NoPair == [phase |-> 0, acts |-> <<>>, log |-> <<>>]

\* Every guard NewOnce can return.
Init ==
    /\ cfg \in Configs
    /\ counting = FALSE
    /\ tracing = FALSE
    /\ pair = NoPair
    /\ Fresh

\* The guards that ignore the actions' results (VerifyNone, and the
\* simplified variant), with the invocations counted.
InitCount ==
    /\ cfg \in {c \in Configs : c.verify = VerifyNone}
    /\ counting = TRUE
    /\ tracing = FALSE
    /\ pair = NoPair
    /\ Fresh

\* Every guard NewOnce can return, with what each action did kept for the
\* length of the Do call that invoked it.
InitTrace ==
    /\ cfg \in Configs
    /\ counting = FALSE
    /\ tracing = TRUE
    /\ pair = NoPair
    /\ Fresh

\* A simplified guard, with actions that do the same thing at every
\* invocation, on which one goroutine makes a sequence of calls.
InitPair ==
    /\ cfg \in SimpleConfigs
    /\ counting = FALSE
    /\ tracing = FALSE
    /\ pair \in [phase : {1}, acts : [Actions -> {"T", "F", "P"}], log : {<<>>}]
    /\ Fresh

\* ----------------------------------------------------------------- calls

FirstPc(o) ==
    CASE o = "Do" -> "do_fast"
      [] o = "Done" -> "dn_final"
      [] o = "DoneBlock" -> "dn_unb"
      [] o = "Reset" -> "rs_lock"
      [] o = "Close" -> "cl_store"

\* A goroutine that is in no call ("idle" before its first call, "ret" with
\* the result of its previous call) calls method o of the guard. Goroutines
\* are numbered in the order of their first calls.
\* The methods the two variants share, less the blocking Done.
PairOps == {"Do", "Done", "Close"}

\* What the caller sees of the call p has returned from: the method, its
\* result, and done after it.
Observed(p) == [op |-> op[p], ret |-> ret[p], done |-> done]

\* Whether the sequence of calls lets p call o now: one goroutine makes the
\* calls, and phase 2 makes the calls of phase 1 again.
PairCall(p, o) ==
    \/ pair.phase = 0
    \/ pair.phase = 1 /\ p = 1 /\ o \in PairOps
    \/ /\ pair.phase = 2 /\ p = 1
       /\ calls < Len(pair.log)
       /\ o = pair.log[calls + 1].op

\* A fact of the history of a call, kept in the runs that are not traced.
Hist(b) == ~tracing /\ b

Call(p, o) ==
    /\ pc[p] \in {"idle", "ret"}
    /\ \A q \in Procs : q < p => pc[q] # "idle"
    /\ calls < MaxCalls
    /\ o \in Ops
    /\ PairCall(p, o)
    /\ pair' = IF pair.phase = 1 /\ pc[p] = "ret"
               THEN [pair EXCEPT !.log = Append(@, Observed(p))]
               ELSE pair
    /\ calls' = calls + 1
    /\ pc' = [pc EXCEPT ![p] = FirstPc(o)]
    /\ op' = [op EXCEPT ![p] = o]
    /\ ret' = [ret EXCEPT ![p] = "none"]
    /\ i' = [i EXCEPT ![p] = 0]
    /\ res' = [res EXCEPT ![p] = FALSE]
    /\ tempRes' = [tempRes EXCEPT ![p] = FALSE]
    /\ panicking' = [panicking EXCEPT ![p] = FALSE]
    /\ ran' = [ran EXCEPT ![p] = <<>>]
    /\ outs' = [outs EXCEPT ![p] = <<>>]
    /\ cDone' = [cDone EXCEPT ![p] = Hist(o = "Do" /\ done = 1)]
    /\ cBusy' = [cBusy EXCEPT ![p] =
                    Hist(o \in {"Do", "Reset", "DoneBlock"}
                            /\ \E q \in Procs : Executing(q))]
    /\ cReset' = [cReset EXCEPT ![p] = FALSE]
    /\ cExec' = [cExec EXCEPT ![p] = FALSE]
    /\ cOpen' = [cOpen EXCEPT ![p] = Hist(o = "DoneBlock" /\ unblock = 1)]
    /\ UNCHANGED <<cfg, guardVars, histVars>>

BoolStr(b) == IF b THEN "T" ELSE "F"

\* The call of p is over: its locals are gone, and so is its history.
Forget(f, p, v) == [f EXCEPT ![p] = v]

\* A history count one higher, up to Many, in the runs that count.
Inc(n) == IF ~counting THEN n ELSE IF n < Many THEN n + 1 ELSE Many

\* The goroutines other than p that are in a call of Do or Reset.
Watching(p) == {q \in Procs \ {p} : pc[q] # "ret" /\ op[q] \in {"Do", "Reset"}}

\* sync.Cond.Broadcast: every goroutine inside Wait() is made runnable; it
\* leaves Wait(), unlocks L and evaluates the loop condition of Done again.
Broadcast(pcs) ==
    [q \in Procs |-> IF q \in waiters THEN "dn_unb" ELSE pcs[q]]

\* --------------------------------------------------------------------- Do

\* Fault: the test never sees the DONE state.
IsDoneNever == FALSE

\* The DONE state as Do tests it on both of its paths: d.done == 1.
IsDone == done = 1

\* Do's fast-path test: atomic.LoadUint32(&d.done) == 1.
FastDone == IsDone

\* The fast path returns false at once when done is set.
DoFast(p) ==
    /\ pc[p] = "do_fast"
    /\ IF FastDone
       THEN /\ pc' = [pc EXCEPT ![p] = "ret"]
            /\ ret' = [ret EXCEPT ![p] = "F"]
            /\ cDone' = Forget(cDone, p, FALSE)
            /\ cBusy' = Forget(cBusy, p, FALSE)
            /\ cReset' = Forget(cReset, p, FALSE)
            /\ cExec' = Forget(cExec, p, FALSE)
       ELSE /\ pc' = [pc EXCEPT ![p] = "do_lock"]
            /\ UNCHANGED <<ret, callVars>>
    /\ UNCHANGED <<cfg, pair, guardVars, op, doVars, calls, histVars, cOpen>>

\* Fault: Lock() is granted whoever holds the mutex.
MuFreeAlways == TRUE

\* d.mu.Lock() is granted only while nobody holds the mutex.
MuFree == mu = None

\* Fault: no re-check of done under the mutex.
LockedDoneNever == FALSE

\* Do's re-check under the mutex: d.done == 1.
LockedDone == IsDone

\* Fault: every branch starts from res = true.
ResInitAlways == TRUE

\* Fault: no branch sets res = true before its loop.
ResInitNever == FALSE

\* The result variable as the chosen branch initialises it before its loop:
\* res = true under VerifyNone (and ret = true in the simplified variant),
\* res = false otherwise.
ResInit == Simple \/ cfg.verify = VerifyNone

\* Fault: done is stored before the actions whatever lazyDone is.
DoneBeforeAlways == 1

\* Fault: done is never stored before the actions.
DoneBeforeNever == done

\* done as Do leaves it before the first action: stored when lazyDone == false.
DoneBefore == IF Eager THEN 1 ELSE done

\* The slow path: d.mu.Lock(), the re-check of done under the mutex (which
\* returns false through the deferred Unlock), and, with lazyDone == false,
\* the store of done before any action is called.
DoLock(p) ==
    /\ pc[p] = "do_lock"
    /\ MuFree
    /\ IF LockedDone
       THEN /\ pc' = [pc EXCEPT ![p] = "ret"]
            /\ ret' = [ret EXCEPT ![p] = "F"]
            /\ cDone' = Forget(cDone, p, FALSE)
            /\ cBusy' = Forget(cBusy, p, FALSE)
            /\ cReset' = Forget(cReset, p, FALSE)
            /\ cExec' = Forget(cExec, p, FALSE)
            /\ UNCHANGED <<done, mu, i, res, tempRes, begun>>
       ELSE /\ mu' = p
            /\ done' = DoneBefore
            /\ i' = [i EXCEPT ![p] = 1]
            /\ res' = [res EXCEPT ![p] = ResInit]
            /\ tempRes' = [tempRes EXCEPT ![p] = TRUE]
            /\ begun' = TRUE
            /\ cExec' = [q \in Procs |-> Hist(cExec[q] \/ q \in Watching(p))]
            /\ pc' = [pc EXCEPT ![p] = "do_run"]
            /\ UNCHANGED <<ret, cDone, cBusy, cReset>>
    /\ UNCHANGED <<cfg, pair, unblock, waiters, op, panicking, ran, outs, calls,
                   reset, lastRes, closed, panicked, counting, tracing,
                   invoked, doTrue, cOpen>>

\* Fault: no policy ends its loop before the last action.
LoopOverLast(k, b) == k = NumActions

\* Fault: every policy ends its loop at the first false.
LoopOverFalse(k, b) == k = NumActions \/ ~b

\* Whether the loop over d.fs calls no further action after action k returned b.
\*   VerifyAll:         tempRes = tempRes && f() stops calling f once false
\*   VerifyFirstRunAll: res = f() || res calls every f
\*   VerifyFirstExit:   break at the first true
\*   VerifyNone:        every f is called
LoopOver(k, b) ==
    \/ k = NumActions
    \/ Full /\ cfg.verify = VerifyAll /\ ~b
    \/ Full /\ cfg.verify = VerifyFirstExit /\ b

\* Fault: res is what the latest action returned.
ResAfterLast(k, b, r, t) == b

\* Fault: no action's result reaches res.
ResAfterKeep(k, b, r, t) == r

\* res after action k returned b, when r was res before and t is tempRes
\* after (VerifyAll assigns res = tempRes once its loop is over).
ResAfter(k, b, r, t) ==
    IF Simple THEN r
    ELSE CASE cfg.verify = VerifyAll -> IF LoopOver(k, b) THEN t ELSE r
           [] cfg.verify = VerifyFirstRunAll -> b \/ r
           [] cfg.verify = VerifyFirstExit -> b \/ r
           [] OTHER -> r

\* Fault: the store of done is among the deferred calls of every variant.
PanicPcCommit == "do_commit"

\* Fault: Broadcast and Unlock are not deferred, a panic leaves Do at once.
PanicPcRet == "ret"

\* Where a panic of f() takes Do: to its deferred calls. In the simplified
\* variant the first of them to run is the store of done.
PanicPc == IF Simple THEN "do_commit" ELSE "do_exit"

\* What action k does when the actions are fixed: the simplified variant's
\* FuncType has no result, so there a false is a plain return.
Behaves(k) ==
    IF Simple /\ pair.acts[k] = "F" THEN "T" ELSE pair.acts[k]

\* One call f() of the loop over d.fs, with what f does this time.
DoRun(p, o) ==
    /\ pc[p] = "do_run"
    /\ o \in Outcomes(cfg.variant)
    /\ pair.phase # 0 => o = Behaves(i[p])
    /\ invoked' = [invoked EXCEPT ![i[p]] = Inc(@)]
    /\ ran' = [ran EXCEPT ![p] = Append(@, i[p])]
    /\ outs' = IF tracing THEN [outs EXCEPT ![p] = Append(@, o)] ELSE outs
    /\ IF o = "P"
       THEN /\ panicking' = [panicking EXCEPT ![p] = TRUE]
            /\ panicked' = TRUE
            /\ pc' = [pc EXCEPT ![p] = PanicPc]
            /\ i' = [i EXCEPT ![p] = 0]
            /\ tempRes' = [tempRes EXCEPT ![p] = FALSE]
            /\ UNCHANGED res
       ELSE LET b == (o = "T")
                t == tempRes[p] /\ b
            IN  /\ res' = [res EXCEPT ![p] = ResAfter(i[p], b, res[p], t)]
                /\ IF LoopOver(i[p], b)
                   THEN /\ pc' = [pc EXCEPT ![p] = "do_commit"]
                        /\ i' = [i EXCEPT ![p] = 0]
                        /\ tempRes' = [tempRes EXCEPT ![p] = FALSE]
                   ELSE /\ i' = [i EXCEPT ![p] = @ + 1]
                        /\ tempRes' = [tempRes EXCEPT ![p] = t]
                        /\ UNCHANGED pc
                /\ UNCHANGED <<panicking, panicked>>
    /\ UNCHANGED <<cfg, pair, guardVars, op, ret, calls, reset, begun,
                   lastRes, closed, counting, tracing, doTrue, callVars>>

\* Fault: done is stored whatever res is (`&& res` left out).
StoresDoneAlways(p) == TRUE

\* Fault: only the simplified variant stores done after the actions.
StoresDoneSimple(p) == Simple

\* Whether done is stored after the actions: `d.lazyDone == true && res` in
\* the configurable variant, the deferred StoreUint32 in the simplified one.
StoresDone(p) == IF Simple THEN TRUE ELSE cfg.lazyDone /\ res[p]

\* Fault: Do stores its result in done, true or false.
DoneAfterRes(p) == IF StoresDone(p) THEN 1 ELSE 0

\* done as Do leaves it after the actions.
DoneAfter(p) == IF StoresDone(p) THEN 1 ELSE done

DoCommit(p) ==
    /\ pc[p] = "do_commit"
    /\ done' = DoneAfter(p)
    /\ pc' = [pc EXCEPT ![p] = "do_exit"]
    /\ UNCHANGED <<cfg, pair, unblock, mu, waiters, op, doVars, ret, calls,
                   histVars, callVars>>

\* Fault: the deferred recover() is never installed.
DoResultRaw(p) == IF panicking[p] THEN "panic" ELSE BoolStr(res[p])

\* What Do hands to its caller: the named result, also after a recovered
\* panic; the panic itself when it is not recovered.
DoResult(p) ==
    IF panicking[p] /\ ~cfg.suppressPanic THEN "panic" ELSE BoolStr(res[p])

\* The deferred calls and the return: d.unblockCond.Broadcast(),
\* d.mu.Unlock(), recover().
DoExit(p) ==
    /\ pc[p] = "do_exit"
    /\ pc' = [Broadcast(pc) EXCEPT ![p] = "ret"]
    /\ waiters' = {}
    /\ mu' = None
    /\ ret' = [ret EXCEPT ![p] = DoResult(p)]
    /\ doTrue' = IF DoResult(p) = "T" THEN Inc(doTrue) ELSE doTrue
    /\ lastRes' = IF panicking[p] THEN "P" ELSE BoolStr(res[p])
    /\ res' = Forget(res, p, FALSE)
    /\ panicking' = Forget(panicking, p, FALSE)
    /\ ran' = Forget(ran, p, <<>>)
    /\ outs' = Forget(outs, p, <<>>)
    /\ cDone' = Forget(cDone, p, FALSE)
    /\ cBusy' = Forget(cBusy, p, FALSE)
    /\ cReset' = Forget(cReset, p, FALSE)
    /\ cExec' = Forget(cExec, p, FALSE)
    /\ UNCHANGED <<cfg, pair, done, unblock, op, i, tempRes, calls,
                   reset, begun, closed, panicked, counting, tracing, invoked,
                   cOpen>>

\* ------------------------------------------------------------------- Done

\* Fault: the loop of Done(true) goes on whatever unblock is.
StillBlockedAlways == TRUE

\* The loop condition of Done(true): atomic.LoadUint32(&d.unblock) == 0.
StillBlocked == unblock = 0

DoneLoadUnblock(p) ==
    /\ pc[p] = "dn_unb"
    /\ pc' = [pc EXCEPT ![p] = IF StillBlocked THEN "dn_chk" ELSE "dn_final"]
    /\ UNCHANGED <<cfg, pair, guardVars, op, doVars, ret, calls, histVars, callVars>>

\* The loop body's check: atomic.LoadUint32(&d.done) == 1 breaks.
DoneLoadDone(p) ==
    /\ pc[p] = "dn_chk"
    /\ pc' = [pc EXCEPT ![p] = IF done = 1 THEN "dn_final" ELSE "dn_wait"]
    /\ UNCHANGED <<cfg, pair, guardVars, op, doVars, ret, calls, histVars, callVars>>

\* d.unblockCond.L.Lock() and d.unblockCond.Wait(): the goroutine joins the
\* notify list, unlocks L and sleeps until a Broadcast. (L is only ever
\* held around Wait, which releases it: it delays nobody for good.)
DoneWait(p) ==
    /\ pc[p] = "dn_wait"
    /\ waiters' = waiters \cup {p}
    /\ pc' = [pc EXCEPT ![p] = "dn_sleep"]
    /\ UNCHANGED <<cfg, pair, done, unblock, mu, op, doVars, ret, calls, histVars,
                   callVars>>

\* return atomic.LoadUint32(&d.done) == 1
DoneFinal(p) ==
    /\ pc[p] = "dn_final"
    /\ ret' = [ret EXCEPT ![p] = BoolStr(done = 1)]
    /\ pc' = [pc EXCEPT ![p] = "ret"]
    /\ cBusy' = Forget(cBusy, p, FALSE)
    /\ cOpen' = Forget(cOpen, p, FALSE)
    /\ UNCHANGED <<cfg, pair, guardVars, op, doVars, calls, histVars, cDone,
                   cReset, cExec>>

\* ------------------------------------------------------------------ Close

\* Whether Close takes d.mu: the configurable variant does, the simplified
\* variant does not.
CloseLocks == Full

\* (d.mu.Lock() and) atomic.StoreUint32(&d.unblock, 1)
CloseStore(p) ==
    /\ pc[p] = "cl_store"
    /\ IF CloseLocks THEN MuFree /\ mu' = p ELSE UNCHANGED mu
    /\ unblock' = 1
    /\ closed' = TRUE
    /\ pc' = [pc EXCEPT ![p] = "cl_exit"]
    /\ UNCHANGED <<cfg, pair, done, waiters, op, doVars, ret, calls, reset,
                   begun, lastRes, panicked, counting, tracing, invoked,
                   doTrue, callVars>>

\* d.unblockCond.Broadcast() (and the deferred d.mu.Unlock())
CloseExit(p) ==
    /\ pc[p] = "cl_exit"
    /\ pc' = [Broadcast(pc) EXCEPT ![p] = "ret"]
    /\ waiters' = {}
    /\ mu' = IF CloseLocks THEN None ELSE mu
    /\ ret' = [ret EXCEPT ![p] = "void"]
    /\ UNCHANGED <<cfg, pair, done, unblock, op, doVars, calls, histVars, callVars>>

\* ------------------------------------------------------------------ Reset

\* Fault: Reset does not wait for d.mu.
ResetGateOpen == TRUE

\* Reset takes d.mu.
ResetGate == MuFree

\* d.mu.Lock() and atomic.StoreUint32(&d.unblock, 0)
ResetLock(p) ==
    /\ pc[p] = "rs_lock"
    /\ ResetGate
    /\ mu' = p
    /\ unblock' = 0
    /\ pc' = [pc EXCEPT ![p] = "rs_done"]
    /\ cOpen' = [q \in Procs |-> FALSE]
    /\ UNCHANGED <<cfg, pair, done, waiters, op, doVars, ret, calls, histVars,
                   cDone, cBusy, cReset, cExec>>

\* Fault: Reset reports true whatever done was.
ResetResultAlways == TRUE

\* Reset's result: res := atomic.LoadUint32(&d.done) == 1
ResetResult == done = 1

\* res := atomic.LoadUint32(&d.done) == 1, atomic.StoreUint32(&d.done, 0),
\* the deferred d.mu.Unlock() and return res
ResetDone(p) ==
    /\ pc[p] = "rs_done"
    /\ ret' = [ret EXCEPT ![p] = BoolStr(ResetResult)]
    /\ done' = 0
    /\ mu' = None
    /\ reset' = TRUE
    /\ begun' = FALSE
    /\ cReset' = [q \in Procs |-> Hist(cReset[q] \/ q \in Watching(p))]
    /\ cBusy' = Forget(cBusy, p, FALSE)
    /\ cExec' = Forget(cExec, p, FALSE)
    /\ pc' = [pc EXCEPT ![p] = "ret"]
    /\ UNCHANGED <<cfg, pair, unblock, waiters, op, doVars, calls, lastRes,
                   closed, panicked, counting, tracing, invoked, doTrue,
                   cDone, cOpen>>

\* ---------------------------------------------------------- specification

Next ==
    \E p \in Procs :
        \/ \E o \in {"Do", "Done", "DoneBlock", "Reset", "Close"} : Call(p, o)
        \/ DoFast(p)
        \/ DoLock(p)
        \/ \E o \in {"T", "F", "P"} : DoRun(p, o)
        \/ DoCommit(p)
        \/ DoExit(p)
        \/ DoneLoadUnblock(p)
        \/ DoneLoadDone(p)
        \/ DoneWait(p)
        \/ DoneFinal(p)
        \/ CloseStore(p)
        \/ CloseExit(p)
        \/ ResetLock(p)
        \/ ResetDone(p)

Spec == Init /\ [][Next]_vars

SpecCount == InitCount /\ [][Next]_vars

SpecTrace == InitTrace /\ [][Next]_vars

\* The configurable guard built with LAZY + VerifyNone and the suppressPanic
\* of the simplified guard of phase 1.
LazyNone(c) ==
    [variant |-> "full", lazyDone |-> TRUE,
     suppressPanic |-> c.suppressPanic, verify |-> VerifyNone]

\* The calls of phase 1 are over: its last call is logged, and the same
\* calls start again on a configurable guard as NewOnce returns it (the
\* state of Fresh), with the same actions.
Rerun ==
    /\ pair.phase = 1
    /\ pc[1] = "ret"
    /\ pair' = [pair EXCEPT !.phase = 2, !.log = Append(@, Observed(1))]
    /\ cfg' = LazyNone(cfg)
    /\ done' = 0
    /\ unblock' = 0
    /\ mu' = None
    /\ waiters' = {}
    /\ pc' = [p \in Procs |-> "idle"]
    /\ op' = [p \in Procs |-> "none"]
    /\ i' = [p \in Procs |-> 0]
    /\ res' = [p \in Procs |-> FALSE]
    /\ tempRes' = [p \in Procs |-> FALSE]
    /\ panicking' = [p \in Procs |-> FALSE]
    /\ ret' = [p \in Procs |-> "none"]
    /\ ran' = [p \in Procs |-> <<>>]
    /\ outs' = [p \in Procs |-> <<>>]
    /\ calls' = 0
    /\ reset' = FALSE
    /\ begun' = FALSE
    /\ lastRes' = "none"
    /\ closed' = FALSE
    /\ panicked' = FALSE
    /\ invoked' = [a \in Actions |-> 0]
    /\ doTrue' = 0
    /\ cDone' = [p \in Procs |-> FALSE]
    /\ cBusy' = [p \in Procs |-> FALSE]
    /\ cReset' = [p \in Procs |-> FALSE]
    /\ cExec' = [p \in Procs |-> FALSE]
    /\ cOpen' = [p \in Procs |-> FALSE]
    /\ UNCHANGED <<counting, tracing>>

NextPair ==
    \/ \E p \in Procs :
        \/ \E o \in PairOps : Call(p, o)
        \/ DoFast(p)
        \/ DoLock(p)
        \/ \E o \in {"T", "F", "P"} : DoRun(p, o)
        \/ DoCommit(p)
        \/ DoExit(p)
        \/ DoneFinal(p)
        \/ CloseStore(p)
        \/ CloseExit(p)
    \/ Rerun

SpecPair == InitPair /\ [][NextPair]_vars

\* ================================================================= claims

InDo(p) == op[p] = "Do" /\ pc[p] \in {"do_fast", "do_lock"} \cup ExecPcs

\* C1. Mutual exclusion of the action list: in every reachable state at most
\* one goroutine is between the locked re-check of Do and its deferred
\* Unlock, and that goroutine holds d.mu; so while one caller executes
\* actions no other caller invokes any.
C1_OneExecutor ==
    /\ Cardinality({p \in Procs : Executing(p)}) <= 1
    /\ \A p \in Procs : Executing(p) => mu = p

\* One goroutine is calling actions while another has passed the fast path
\* and is kept out by the mutex.
C1_Witness ==
    \E p, q \in Procs :
        /\ p # q
        /\ pc[p] = "do_run" /\ Len(ran[p]) >= 1
        /\ pc[q] = "do_lock"

\* C2. Single winner (checked with the invocations counted, on the guards
\* that ignore results: EAGER+NONE, LAZY+NONE and the simplified variant):
\* as long as no Reset was made and no action panicked, at most one Do has
\* returned true and no action was invoked twice; once an execution has
\* begun, the winner is either still executing or is the one Do that
\* returned true; and when no Do call is in progress any more, exactly one
\* Do has returned true, every other Do has returned false, and every action
\* has been invoked exactly once.
C2_SingleWinner ==
    (~reset /\ ~panicked) =>
        /\ doTrue <= 1
        /\ \A a \in Actions : invoked[a] <= 1
        /\ \A p \in Procs : (op[p] = "Do" /\ pc[p] = "ret") => ret[p] \in {"T", "F"}
        /\ Cardinality({p \in Procs : op[p] = "Do" /\ pc[p] = "ret" /\ ret[p] = "T"}) <= 1
        /\ begun => ((doTrue = 1) # (\E p \in Procs : Executing(p)))
        /\ (begun /\ \A p \in Procs : ~InDo(p)) =>
              /\ doTrue = 1
              /\ \A a \in Actions : invoked[a] = 1

\* Three goroutines have raced: the winner is about to return true with every
\* action invoked once, one loser got false, one is still kept out.
C2_Witness ==
    /\ ~reset /\ ~panicked
    /\ \E p, q, r \in Procs :
        /\ pc[p] = "do_exit" /\ res[p]
        /\ pc[q] = "do_lock"
        /\ pc[r] = "ret" /\ op[r] = "Do" /\ ret[r] = "F"
        /\ \A a \in Actions : invoked[a] = 1

\* C3. Idempotence after success: a Do call made when done was set, during
\* which no Reset cleared done, never executes the action list, invokes no
\* action, and returns false.
C3_Inv ==
    \A p \in Procs :
        (InDo(p) /\ cDone[p] /\ ~cReset[p]) =>
            /\ ~Executing(p)
            /\ ran[p] = <<>>

C3_Step ==
    \A p \in Procs :
        (InDo(p) /\ cDone[p] /\ ~cReset[p] /\ pc'[p] = "ret") => ret'[p] = "F"

C3_DoneIsFinal == [](C3_Inv) /\ [][C3_Step]_vars

\* After a successful execution and with no Reset at all, a later Do call
\* has returned false while done is still set.
C3_Witness ==
    \E p \in Procs :
        /\ pc[p] = "ret" /\ op[p] = "Do" /\ ret[p] = "F"
        /\ lastRes = "T" /\ done = 1 /\ ~reset
        /\ calls = MaxCalls

\* C4. Retry under LAZY: when the actions have run to a false policy result,
\* done is still 0 as Do exits; a Do call returns without executing only if
\* done was set when it was made, or an execution was in progress then, or
\* another call began one since (so the next Do after a failed one takes the
\* mutex and executes); and an execution calls the actions from the first
\* one on, in order.
C4_RetryAfterFalse ==
    Lazy =>
        \A p \in Procs :
            /\ (pc[p] = "do_exit" /\ ~panicking[p] /\ ~res[p]) => done = 0
            /\ (op[p] = "Do" /\ pc[p] \in {"do_fast", "do_lock"} /\ done = 1) =>
                    (cDone[p] \/ cBusy[p] \/ cExec[p])
            /\ pc[p] = "do_run" => ran[p] = [k \in 1..(i[p] - 1) |-> k]
            /\ pc[p] \in {"do_commit", "do_exit"} =>
                    \E n \in 1..NumActions : ran[p] = [k \in 1..n |-> k]

\* In one epoch an execution ended with a false result, and a later Do,
\* made when nothing was in progress, has run the actions again from the
\* first, succeeded and stored done.
C4_Witness ==
    /\ Lazy /\ ~reset /\ lastRes = "F" /\ done = 1
    /\ \E p \in Procs :
        /\ pc[p] = "do_exit" /\ res[p] /\ ~panicking[p]
        /\ ~cBusy[p] /\ ~cDone[p] /\ ~cExec[p]
        /\ ran[p] = [k \in 1..NumActions |-> k]

\* Every goroutine but p is in no call, or asleep in Wait() itself: nobody
\* is on the way to a Broadcast.
Quiet(p) == \A q \in Procs \ {p} : pc[q] \in {"idle", "ret", "dn_sleep"}

\* C5. No completion wake-up is lost: once done is set, no Done(true) caller
\* is left asleep in Wait() with every other call finished (it would sleep
\* until some later call broadcasts, and no call has to come).
C5_NoLostCompletion ==
    \A p \in Procs : ~(Full /\ pc[p] = "dn_sleep" /\ done = 1 /\ Quiet(p))

\* C6. No Close wake-up is lost: once Close has stored unblock, no
\* Done(true) caller is left asleep in Wait() with every other call finished.
C6_NoLostClose ==
    \A p \in Procs : ~(Full /\ pc[p] = "dn_sleep" /\ unblock = 1 /\ Quiet(p))

\* C7 as claimed, for EAGER and LAZY alike: with no Close and no Reset, a
\* Done(true) call is past its loop only when no execution has an action
\* left to call or a result left to store, and done is set.
C7_AnyTiming ==
    \A p \in Procs :
        (Full /\ ~reset /\ ~closed /\ op[p] = "DoneBlock" /\ pc[p] = "dn_final") =>
            /\ done = 1
            /\ \A q \in Procs : pc[q] \notin {"do_run", "do_commit"}

\* C7, amended to LAZY. With no Close and no Reset, a Done(true) call is past
\* its loop only when done is set and no execution has an action left to call
\* or a result left to store, and it returns true.
C7_Inv ==
    \A p \in Procs :
        (Lazy /\ ~reset /\ ~closed /\ op[p] = "DoneBlock" /\ pc[p] = "dn_final") =>
            /\ done = 1
            /\ \A q \in Procs : pc[q] \notin {"do_run", "do_commit"}

C7_Step ==
    \A p \in Procs :
        (Lazy /\ ~reset /\ ~closed /\ op[p] = "DoneBlock" /\ pc[p] = "dn_final"
            /\ pc'[p] = "ret") => ret'[p] = "T"

C7_LazyDoneWaits == [](C7_Inv) /\ [][C7_Step]_vars

\* A Done(true) call made while an execution was in progress is past its
\* loop; the execution has called its last action and stored done, and its
\* Do has not returned yet.
C7_Witness ==
    /\ Lazy /\ ~reset /\ ~closed
    /\ \E p, q \in Procs :
        /\ op[p] = "DoneBlock" /\ pc[p] = "dn_final" /\ cBusy[p]
        /\ pc[q] = "do_exit" /\ res[q] /\ Len(ran[q]) = NumActions

\* The latest execution begun has stored done (it has ended by then).
LatestStored == Eager \/ (Lazy /\ lastRes = "T")

\* C8. Reset serialises with an execution: a Reset gets past its Lock(), to
\* its stores of unblock and done, only in a step taken when no execution
\* holds the mutex, and holds the mutex itself until it returns; and a Reset
\* called during an execution that stores done, with no other Reset and no
\* other execution in between, returns true and leaves done = 0.
C8_Inv ==
    \A p \in Procs :
        pc[p] = "rs_done" => (mu = p /\ \A q \in Procs : ~Executing(q))

C8_Step ==
    \A p \in Procs :
        /\ (pc[p] = "rs_lock" /\ pc'[p] # "rs_lock") =>
                \A q \in Procs : ~Executing(q)
        /\ (pc[p] = "rs_done" /\ pc'[p] = "ret" /\ cBusy[p] /\ ~cReset[p]
                /\ ~cExec[p] /\ LatestStored) =>
                (ret'[p] = "T" /\ done' = 0)

C8_ResetWaitsForDo == [](C8_Inv) /\ [][C8_Step]_vars

\* A Reset called during a LAZY execution has waited for it, holds the mutex
\* now, and finds done stored by that execution.
C8_Witness ==
    \E p \in Procs :
        /\ pc[p] = "rs_done" /\ cBusy[p] /\ ~cReset[p] /\ ~cExec[p]
        /\ Lazy /\ lastRes = "T" /\ done = 1

\* C9. Reset leaves done = 0 and unblock = 0 and returns true exactly when
\* done was 1 as it read it; a Reset with no execution begun since the
\* previous Reset (or since construction) returns false; while no execution
\* has begun since the last Reset, Done reports false; and a Do call returns
\* without executing only if done was set when it was made, or an execution
\* was in progress then, or another call began one since.
C9_Inv ==
    /\ ~begun => done = 0
    /\ \A p \in Procs :
        (Full /\ op[p] = "Do" /\ pc[p] \in {"do_fast", "do_lock"} /\ done = 1) =>
            (cDone[p] \/ cBusy[p] \/ cExec[p])

C9_Step ==
    \A p \in Procs :
        /\ (pc[p] = "rs_done" /\ pc'[p] = "ret") =>
                /\ done' = 0 /\ unblock' = 0
                /\ (ret'[p] = "T") <=> (done = 1)
                /\ ~begun => ret'[p] = "F"
        /\ (pc[p] = "dn_final" /\ pc'[p] = "ret" /\ ~begun) => ret'[p] = "F"

C9_ResetReusable == [](C9_Inv) /\ [][C9_Step]_vars

\* A second epoch: after a successful execution and a Reset, a Do made when
\* done was clear has run every action again, succeeded and stored done.
C9_Witness ==
    /\ reset /\ lastRes = "T" /\ done = 1 /\ calls = MaxCalls
    /\ \E p \in Procs :
        /\ pc[p] = "do_exit" /\ res[p] /\ ~cDone[p] /\ ~cBusy[p] /\ ~cExec[p]
        /\ ran[p] = [k \in 1..NumActions |-> k]

\* C10. A panic inside Do: as the Do in which an action panicked exits, done
\* is 1 under EAGER and 0 under LAZY, for every policy and with or without
\* suppressPanic.
C10_Inv ==
    \A p \in Procs :
        (Full /\ pc[p] = "do_exit" /\ panicking[p]) =>
            done = IF Eager THEN 1 ELSE 0

C10_Step ==
    \A p \in Procs :
        (Full /\ pc[p] = "do_exit" /\ panicking[p] /\ pc'[p] = "ret") =>
            done' = IF Eager THEN 1 ELSE 0

C10_DoneAfterPanic == [](C10_Inv) /\ [][C10_Step]_vars

\* Under LAZY with VerifyNone (res already true), the last action has
\* panicked and Do is about to exit with done still 0.
C10_Witness ==
    \E p \in Procs :
        /\ Lazy /\ cfg.verify = VerifyNone
        /\ pc[p] = "do_exit" /\ panicking[p] /\ res[p]
        /\ Len(ran[p]) = NumActions /\ done = 0

\* Goroutine p's Do, in which an action panicked, returns in this step.
PanicExit(p) == pc[p] = "do_exit" /\ panicking[p] /\ pc'[p] = "ret"

\* C11. With suppressPanic no Do call ends in a panic; without it a Do call
\* ends in a panic exactly when an action it invoked itself panicked, so the
\* panic reaches the caller that invoked the action and nobody else.
C11_Inv ==
    \A p \in Procs :
        ret[p] = "panic" => (~cfg.suppressPanic /\ op[p] = "Do" /\ pc[p] = "ret")

C11_Step ==
    \A p \in Procs :
        /\ (ret'[p] = "panic" /\ ret[p] # "panic") => PanicExit(p)
        /\ PanicExit(p) => (ret'[p] = "panic" <=> ~cfg.suppressPanic)
        /\ (pc[p] = "do_exit" /\ ~panicking[p]) => ret'[p] # "panic"

C11_PanicReachesItsCaller == [](C11_Inv) /\ [][C11_Step]_vars

\* Without suppressPanic one Do call has ended in the panic of its action
\* while another goroutine's Do call has returned a boolean.
C11_Witness ==
    /\ ~cfg.suppressPanic
    /\ \E p, q \in Procs :
        /\ p # q
        /\ op[p] = "Do" /\ pc[p] = "ret" /\ ret[p] = "panic"
        /\ op[q] = "Do" /\ pc[q] = "ret" /\ ret[q] \in {"T", "F"}

\* C12 as claimed: with suppressPanic, a Do in which an action panicked
\* returns false, whatever the policy and the timing.
C12_AlwaysFalse ==
    [][\A p \in Procs :
        (Full /\ cfg.suppressPanic /\ PanicExit(p)) => ret'[p] = "F"]_vars

\* What the configurable Do returns after a recovered panic, given what the
\* actions it invoked did.
ContainedResult(os) ==
    CASE cfg.verify = VerifyNone -> "T"
      [] cfg.verify = VerifyFirstRunAll -> IF \E k \in DOMAIN os : os[k] = "T"
                                           THEN "T" ELSE "F"
      [] OTHER -> "F"

\* C12, amended. With suppressPanic, a Do in which an action panicked returns
\* false under VerifyAll and VerifyFirstExit, and under VerifyFirstRunAll
\* when no earlier action returned true; it returns true under VerifyNone,
\* and under VerifyFirstRunAll when an earlier action returned true.
C12_ContainedResult ==
    [][\A p \in Procs :
        (Full /\ cfg.suppressPanic /\ PanicExit(p)) =>
            ret'[p] = ContainedResult(outs[p])]_vars

\* Under VerifyAll with suppressPanic the first action returned true, the
\* second panicked, and Do is about to return.
C12_Witness ==
    \E p \in Procs :
        /\ Full /\ cfg.suppressPanic /\ cfg.verify = VerifyAll
        /\ pc[p] = "do_exit" /\ panicking[p] /\ outs[p] = <<"T", "P">>

\* C13. With suppressPanic, a Do in which an action panicked returns true
\* under VerifyNone with either timing (and in the simplified variant), and
\* under VerifyFirstRunAll when an action returned true before the panic;
\* under LAZY timing done is 0 when such a call returns true.
C13_Step ==
    \A p \in Procs :
        (cfg.suppressPanic /\ PanicExit(p)
            /\ \/ Simple
               \/ cfg.verify = VerifyNone
               \/ cfg.verify = VerifyFirstRunAll
                    /\ \E k \in DOMAIN outs[p] : outs[p][k] = "T") =>
            /\ ret'[p] = "T"
            /\ Lazy => done' = 0

C13_TrueAfterPanic == [][C13_Step]_vars

\* Under LAZY timing and VerifyFirstRunAll with suppressPanic, the first
\* action returned true, the second panicked, and Do is about to return
\* with done still 0.
C13_Witness ==
    \E p \in Procs :
        /\ Lazy /\ cfg.suppressPanic /\ cfg.verify = VerifyFirstRunAll
        /\ pc[p] = "do_exit" /\ panicking[p] /\ outs[p] = <<"T", "P">>
        /\ done = 0

\* C14. While a goroutine is at an action call of Do, done is 1 under EAGER
\* timing and 0 under LAZY timing; a Done(false) that reads done then returns
\* true under EAGER and false under LAZY.
C14_Inv ==
    \A q \in Procs :
        (Full /\ pc[q] = "do_run") => done = IF Eager THEN 1 ELSE 0

C14_Step ==
    \A p \in Procs :
        (Full /\ op[p] = "Done" /\ pc[p] = "dn_final" /\ pc'[p] = "ret"
            /\ \E q \in Procs : pc[q] = "do_run") =>
            ret'[p] = IF Eager THEN "T" ELSE "F"

C14_DoneDuringActions == [](C14_Inv) /\ [][C14_Step]_vars

\* Under EAGER timing a Done(false) is about to read done while another
\* goroutine is between two actions of its Do.
C14_Witness ==
    /\ Eager
    /\ \E p, q \in Procs :
        /\ op[p] = "Done" /\ pc[p] = "dn_final"
        /\ pc[q] = "do_run" /\ Len(ran[q]) = 1

\* The first n actions, in the order of d.fs.
InOrder(n) == [k \in 1..n |-> k]

\* Some action of the list os returned b.
Some(os, b) == \E k \in DOMAIN os : os[k] = BoolStr(b)

\* Goroutine p's Do has left its loop over d.fs with no panic.
LoopDone(p) == pc[p] \in {"do_commit", "do_exit"} /\ ~panicking[p]

\* Goroutine p's Do, in which no action panicked, returns in this step.
PlainExit(p) == pc[p] = "do_exit" /\ ~panicking[p] /\ pc'[p] = "ret"

\* C15. Under LAZY + VerifyAll, Do invokes the actions in order and none
\* after the first that returned false; it returns true, with done stored,
\* exactly when every action was invoked and none returned false.
C15_Inv ==
    \A p \in Procs :
        (Lazy /\ cfg.verify = VerifyAll /\ Executing(p)) =>
            /\ ran[p] = InOrder(Len(outs[p]))
            /\ \A k \in 1..(Len(outs[p]) - 1) : outs[p][k] = "T"
            /\ LoopDone(p) =>
                /\ res[p] <=> ~Some(outs[p], FALSE)
                /\ res[p] => Len(outs[p]) = NumActions
            /\ (pc[p] = "do_exit" /\ ~panicking[p]) =>
                done = IF Some(outs[p], FALSE) THEN 0 ELSE 1

C15_Step ==
    \A p \in Procs :
        (Lazy /\ cfg.verify = VerifyAll /\ PlainExit(p)) =>
            /\ ret'[p] = BoolStr(~Some(outs[p], FALSE))
            /\ done' = IF Some(outs[p], FALSE) THEN 0 ELSE 1

C15_VerifyAll == [](C15_Inv) /\ [][C15_Step]_vars

\* The first action returned false: the loop is over with the second action
\* not invoked, and Do is about to return false with done 0.
C15_Witness ==
    \E p \in Procs :
        /\ Lazy /\ cfg.verify = VerifyAll
        /\ pc[p] = "do_exit" /\ outs[p] = <<"F">> /\ ~res[p] /\ done = 0

\* C16. Under LAZY + VerifyFirstRunAll, Do invokes every action in order
\* whatever the earlier ones returned, and returns true, with done stored,
\* exactly when some action returned true.
C16_Inv ==
    \A p \in Procs :
        (Lazy /\ cfg.verify = VerifyFirstRunAll /\ Executing(p)) =>
            /\ ran[p] = InOrder(Len(outs[p]))
            /\ LoopDone(p) =>
                /\ Len(outs[p]) = NumActions
                /\ res[p] <=> Some(outs[p], TRUE)
            /\ (pc[p] = "do_exit" /\ ~panicking[p]) =>
                done = IF Some(outs[p], TRUE) THEN 1 ELSE 0

C16_Step ==
    \A p \in Procs :
        (Lazy /\ cfg.verify = VerifyFirstRunAll /\ PlainExit(p)) =>
            /\ ret'[p] = BoolStr(Some(outs[p], TRUE))
            /\ done' = IF Some(outs[p], TRUE) THEN 1 ELSE 0

C16_VerifyFirstRunAll == [](C16_Inv) /\ [][C16_Step]_vars

\* The first action returned true and the last one false: every action was
\* invoked, and Do is about to return true with done stored.
C16_Witness ==
    \E p \in Procs :
        /\ Lazy /\ cfg.verify = VerifyFirstRunAll
        /\ pc[p] = "do_exit" /\ Len(outs[p]) = NumActions
        /\ outs[p][1] = "T" /\ outs[p][NumActions] = "F"
        /\ res[p] /\ done = 1

\* C17. Under LAZY + VerifyFirstExit, Do invokes the actions in order and
\* none after the first that returned true (so an action after it cannot
\* panic); it returns true, with done stored, exactly when some action
\* returned true, and having invoked every action otherwise.
C17_Inv ==
    \A p \in Procs :
        (Lazy /\ cfg.verify = VerifyFirstExit /\ Executing(p)) =>
            /\ ran[p] = InOrder(Len(outs[p]))
            /\ \A k \in 1..(Len(outs[p]) - 1) : outs[p][k] = "F"
            /\ Some(outs[p], TRUE) => ~panicking[p]
            /\ LoopDone(p) =>
                /\ res[p] <=> Some(outs[p], TRUE)
                /\ ~res[p] => Len(outs[p]) = NumActions
            /\ (pc[p] = "do_exit" /\ ~panicking[p]) =>
                done = IF Some(outs[p], TRUE) THEN 1 ELSE 0

C17_Step ==
    \A p \in Procs :
        (Lazy /\ cfg.verify = VerifyFirstExit /\ PlainExit(p)) =>
            /\ ret'[p] = BoolStr(Some(outs[p], TRUE))
            /\ done' = IF Some(outs[p], TRUE) THEN 1 ELSE 0

C17_VerifyFirstExit == [](C17_Inv) /\ [][C17_Step]_vars

\* The first action returned true: the loop is over with the second action
\* not invoked, and Do is about to return true with done stored.
C17_Witness ==
    \E p \in Procs :
        /\ Lazy /\ cfg.verify = VerifyFirstExit
        /\ pc[p] = "do_exit" /\ outs[p] = <<"T">> /\ res[p] /\ done = 1

\* C18. Under VerifyNone with either timing, a Do that executes with no
\* panic invokes every action in order whatever they return, returns true
\* and leaves done = 1.
C18_Inv ==
    \A p \in Procs :
        (Full /\ cfg.verify = VerifyNone /\ Executing(p)) =>
            /\ ran[p] = InOrder(Len(outs[p]))
            /\ LoopDone(p) => (Len(outs[p]) = NumActions /\ res[p])
            /\ (pc[p] = "do_exit" /\ ~panicking[p]) => done = 1

C18_Step ==
    \A p \in Procs :
        (Full /\ cfg.verify = VerifyNone /\ PlainExit(p)) =>
            (ret'[p] = "T" /\ done' = 1)

C18_VerifyNone == [](C18_Inv) /\ [][C18_Step]_vars

\* Under LAZY timing every action returned false, and Do is about to return
\* true with done stored.
C18_Witness ==
    \E p \in Procs :
        /\ Lazy /\ cfg.verify = VerifyNone
        /\ pc[p] = "do_exit" /\ outs[p] = [k \in 1..NumActions |-> "F"]
        /\ res[p] /\ done = 1

\* C19. From a Close until the next Reset unblock stays 1 (only Reset's
\* store clears it); a Done(true) call made in that period never enters its
\* loop body, so it never waits, and returns what done is; and the steps of
\* a Close made while unblock is already 1 change neither done nor unblock.
C19_Inv ==
    \A p \in Procs :
        cOpen[p] =>
            /\ unblock = 1
            /\ op[p] = "DoneBlock" /\ pc[p] \in {"dn_unb", "dn_final"}
            /\ p \notin waiters

C19_Step ==
    /\ (unblock = 1 /\ unblock' = 0) =>
            \E p \in Procs : pc[p] = "rs_lock" /\ pc'[p] = "rs_done"
    /\ \A p \in Procs :
        /\ (cOpen[p] /\ pc[p] = "dn_final" /\ pc'[p] = "ret") =>
                ret'[p] = BoolStr(done = 1)
        /\ (op[p] = "Close" /\ pc[p] \in {"cl_store", "cl_exit"}
                /\ pc'[p] # pc[p] /\ unblock = 1) =>
                (done' = done /\ unblock' = 1)

C19_ClosedStaysOpen == [](C19_Inv) /\ [][C19_Step]_vars

\* After a Close, a Done(true) call made with unblock = 1 is past its loop
\* with done still 0, while a second Close is about to store unblock again.
C19_Witness ==
    \E p, q \in Procs :
        /\ cOpen[p] /\ pc[p] = "dn_final" /\ done = 0
        /\ op[q] = "Close" /\ pc[q] = "cl_store" /\ unblock = 1

\* C20. A Do call made while another goroutine was executing the action
\* list returns only when no other goroutine is executing it, and returns
\* false.
C20_DoWaitsForExecution ==
    [][\A p \in Procs :
        (op[p] = "Do" /\ cBusy[p] /\ pc[p] # "ret" /\ pc'[p] = "ret") =>
            /\ \A q \in Procs \ {p} : ~Executing(q)
            /\ ret'[p] = "F"]_vars

\* C21. A Close called while a Do execution is in progress does not wait for
\* it: whenever a goroutine is at the first step of Close while another is
\* executing the action list, that step can be taken at once.
C21_CloseNeverWaits ==
    \A p \in Procs :
        (pc[p] = "cl_store" /\ \E q \in Procs : Executing(q)) =>
            ENABLED CloseStore(p)

\* A call of phase 2 has returned: the corresponding call of phase 1 is
\* pair.log[calls].
Replayed == pair.phase = 2 /\ pc[1] = "ret"

\* Some action panics whenever it is invoked.
SomePanics == \E k \in Actions : pair.acts[k] = "P"

\* C22 as claimed: over the same sequence of Do, Done(false) and Close calls
\* with the same actions, each call on the configurable guard built with
\* LAZY + VerifyNone returns what it returned on the simplified guard and
\* leaves done as it left it there, also when an action panics.
C22_SameAlways == Replayed => Observed(1) = pair.log[calls]

\* C22, amended. When no action panics, each call on the configurable guard
\* returns what it returned on the simplified guard and leaves the same
\* done. When an action panics, the first Do call of the sequence ends the
\* same way on both (true, or the panic), but leaves done = 1 on the
\* simplified guard and done = 0 on the configurable one.
C22_SameUnlessPanic ==
    Replayed =>
        /\ ~SomePanics => Observed(1) = pair.log[calls]
        /\ (SomePanics /\ op[1] = "Do"
                /\ \A k \in 1..(calls - 1) : pair.log[k].op # "Do") =>
            /\ ret[1] = pair.log[calls].ret
            /\ pair.log[calls].done = 1
            /\ done = 0

\* With an action that returns false and none that panics, the sequence
\* Do, Do, Done(false) has been made on both guards.
C22_Witness ==
    /\ Replayed /\ ~SomePanics /\ calls = 3
    /\ \E k \in Actions : pair.acts[k] = "F"
    /\ pair.log[1].op = "Do" /\ pair.log[2].op = "Do"
    /\ pair.log[3].op = "Done"

\* Every combination of arguments NewOnce can be given.
NewOnceArgs == BOOLEAN \X BOOLEAN \X VerifyTypes

C24_Inv ==
    \A p \in Procs :
        mu = p => pc[p] \in ExecPcs \cup {"cl_exit", "rs_done"}

C24_Step ==
    \A p \in Procs :
        PanicExit(p) =>
            /\ mu' = None
            /\ waiters' = {}
            /\ \A q \in waiters : pc'[q] = "dn_unb"

C24_PanicReleases == [](C24_Inv) /\ [][C24_Step]_vars

\* One Do has ended in the panic of its action, and a Reset called
\* meanwhile has got the mutex.
C24_Witness ==
    \E p, q \in Procs :
        /\ op[p] = "Do" /\ pc[p] = "ret" /\ ret[p] = "panic"
        /\ op[q] = "Reset" /\ pc[q] = "rs_done" /\ mu = q

\* C25. done goes from 1 to 0 only in the step of a Reset that stores it;
\* no step of Close or Done changes done.
C25_Step ==
    /\ (done = 1 /\ done' = 0) =>
            \E p \in Procs : pc[p] = "rs_done" /\ pc'[p] = "ret"
    /\ \A p \in Procs :
        (op[p] \in {"Close", "Done", "DoneBlock"}
            /\ pc[p] \notin {"idle", "ret", "dn_sleep"} /\ pc'[p] # pc[p]) =>
            done' = done

C25_OnlyResetClears == [][C25_Step]_vars

\* Under EAGER timing done is 1 and a Do is past its actions with a result
\* it does not store, while a Reset is waiting to clear done.
C25_Witness ==
    /\ Eager /\ done = 1
    /\ \E p, q \in Procs :
        /\ pc[p] = "do_commit" /\ ~StoresDone(p)
        /\ pc[q] = "rs_lock"

\* C26. A Done(true) call has returned false only if Close has been called.
C26_FalseOnlyAfterClose ==
    \A p \in Procs :
        (op[p] = "DoneBlock" /\ pc[p] = "ret" /\ ret[p] = "F") => closed

==========================================================================
